---- MODULE Spec2Model ----
(***************************************************************************)
(* A model of postprocess_browsecomp.py: the post-processor that reloads a *)
(* BrowseComp results bundle, drops the examples whose response is empty   *)
(* or a placeholder, recomputes the accuracy and writes an HTML report.    *)
(*                                                                         *)
(* Strings are modelled as sequences of tokens.  A token is either one     *)
(* character (a digit, ".", a blank) or a literal the code looks for as a  *)
(* whole ("Score:", "True", "_allresults", ...); "x" stands for any other  *)
(* text.  Floats are modelled as exact reduced fractions [num, den].       *)
(***************************************************************************)
EXTENDS Integers, Sequences, FiniteSets, TLC

\* ------------------------------------------------------------------ bounds
\* longest htmls / convos sequence of an input bundle
MaxLen == 2
\* longest snippet (in tokens) handed to extract_score_from_html on its own
MaxHtmlLen == 4

\* ------------------------------------------------------------ exact numbers
RECURSIVE GCD(_, _)
GCD(a, b) == IF b = 0 THEN a ELSE GCD(b, a % b)

\* the reduced fraction n/d (d > 0, n >= 0)
Frac(n, d) == LET g == GCD(n, d) IN [num |-> n \div g, den |-> d \div g]

FZero == Frac(0, 1)
FOne == Frac(1, 1)
FAdd(a, b) == Frac(a.num * b.den + b.num * a.den, a.den * b.den)

RECURSIVE Pow10(_)
Pow10(k) == IF k = 0 THEN 1 ELSE 10 * Pow10(k - 1)

\* ------------------------------------------------------- the score extractor
Digits == {"0", "1", "5", "7"}
HtmlTokens == {"Score:", " ", "True", "False", ".", "x"} \cup Digits

DigitVal(t) == CASE t = "0" -> 0 [] t = "1" -> 1 [] t = "5" -> 5 [] t = "7" -> 7

\* the value of a run of decimal digits
RECURSIVE DecVal(_)
DecVal(ds) ==
    IF ds = <<>> THEN 0
    ELSE 10 * DecVal(SubSeq(ds, 1, Len(ds) - 1)) + DigitVal(ds[Len(ds)])

\* \s* : the first position at or after q that holds no whitespace
RECURSIVE SkipSpaces(_, _)
SkipSpaces(html, q) ==
    IF q <= Len(html) /\ html[q] = " " THEN SkipSpaces(html, q + 1) ELSE q

\* [0-9]+ : the first position at or after q that holds no digit
RECURSIVE DigitsEnd(_, _)
DigitsEnd(html, q) ==
    IF q <= Len(html) /\ html[q] \in Digits THEN DigitsEnd(html, q + 1) ELSE q

\* group(1) of  Score:\s*(True|False|[0-9]+(?:\.[0-9]+)?)  matched at position
\* p, or <<>> when the pattern does not match there
MatchAt(html, p) ==
    IF html[p] # "Score:" THEN <<>>
    ELSE LET q == SkipSpaces(html, p + 1) IN
         IF q > Len(html) THEN <<>>
         ELSE IF html[q] \in {"True", "False"} THEN <<html[q]>>
         ELSE IF html[q] \in Digits THEN
              LET r == DigitsEnd(html, q) IN
              IF r + 1 <= Len(html) /\ html[r] = "." /\ html[r + 1] \in Digits
              THEN SubSeq(html, q, DigitsEnd(html, r + 1) - 1)
              ELSE SubSeq(html, q, r - 1)
         ELSE <<>>

\* re.search: the match at the leftmost position that has one
RECURSIVE re_search(_, _)
re_search(html, p) ==
    IF p > Len(html) THEN <<>>
    ELSE IF MatchAt(html, p) # <<>> THEN MatchAt(html, p)
    ELSE re_search(html, p + 1)

\* the position of "." in a numeric token, 0 when it has none
DotAt(token) ==
    IF \E k \in 1..Len(token) : token[k] = "."
    THEN CHOOSE k \in 1..Len(token) : token[k] = "."
    ELSE 0

\* float(token) of a token  digits  or  digits.digits  (it never raises on
\* what the pattern captures, so the except branch is not reachable)
float(token) ==
    LET d == DotAt(token) IN
    IF d = 0 THEN Frac(DecVal(token), 1)
    ELSE LET ip == SubSeq(token, 1, d - 1)
             fp == SubSeq(token, d + 1, Len(token))
         IN Frac(DecVal(ip) * Pow10(Len(fp)) + DecVal(fp), Pow10(Len(fp)))

\* None, and a returned float
NoScore == [found |-> FALSE, val |-> FZero]
Score(v) == [found |-> TRUE, val |-> v]

extract_score_from_html(html) ==
    LET token == re_search(html, 1) IN
    IF token = <<>> THEN NoScore
    ELSE IF token[1] \in {"True", "False"}
         THEN Score(IF token[1] = "True" THEN FOne ELSE FZero)
         ELSE Score(float(token))

\* -------------------------------------------------- the empty-response test
\* the placeholder a failed model call leaves as the assistant's answer
Placeholder == "No response (bad request)"
ContentTokens == {" ", "x", Placeholder}

\* a message object; has_content is FALSE when the key is missing or null
Msg(role, c) == [role |-> role, has_content |-> TRUE, content |-> c]
MsgNoContent(role) == [role |-> role, has_content |-> FALSE, content |-> <<>>]

\* str.strip(): the string without its leading and trailing whitespace
RECURSIVE lstrip(_)
lstrip(s) == IF s # <<>> /\ s[1] = " " THEN lstrip(Tail(s)) ELSE s
RECURSIVE rstrip(_)
rstrip(s) ==
    IF s # <<>> /\ s[Len(s)] = " " THEN rstrip(SubSeq(s, 1, Len(s) - 1)) ELSE s
strip(s) == rstrip(lstrip(s))

\* str.startswith(prefix) for a one-token prefix
startswith(s, prefix) == s # <<>> /\ s[1] = prefix

\* is_empty_assistant without the strip()
is_empty_assistant_NoStrip(convo) ==
    IF convo = <<>> THEN TRUE
    ELSE LET last == convo[Len(convo)]
             content == IF last.has_content THEN last.content ELSE <<>>
         IN IF content = <<>> THEN TRUE
            ELSE IF startswith(content, Placeholder) THEN TRUE
            ELSE FALSE

is_empty_assistant(convo) ==
    IF convo = <<>> THEN TRUE
    ELSE LET last == convo[Len(convo)]
             content == strip(IF last.has_content THEN last.content ELSE <<>>)
         IN IF content = <<>> THEN TRUE
            ELSE IF startswith(content, Placeholder) THEN TRUE
            ELSE FALSE

\* ------------------------------------------------------------------ paths
DirTokens == {"/tmp/"}
ExtTokens == {".json", ".html"}

\* the order of the tokens as strings
TokRank(t) ==
    CASE t = ".html" -> 1 [] t = ".json" -> 2 [] t = "/tmp/" -> 3
      [] t = "1" -> 4 [] t = "2" -> 5
      [] t = "_allresults" -> 6 [] t = "_postprocessed" -> 7
      [] t = "browsecomp_" -> 8 [] t = "r" -> 9

\* a < b as strings
RECURSIVE PathLess(_, _)
PathLess(a, b) ==
    IF a = <<>> THEN b # <<>>
    ELSE IF b = <<>> THEN FALSE
    ELSE IF a[1] = b[1] THEN PathLess(Tail(a), Tail(b))
    ELSE TokRank(a[1]) < TokRank(b[1])

\* sorted(S)[-1]
LastSorted(S) == CHOOSE p \in S : \A q \in S \ {p} : PathLess(q, p)

\* fnmatch of /tmp/browsecomp_*_allresults.json
GlobMatch(p) ==
    /\ Len(p) >= 4
    /\ p[1] = "/tmp/"
    /\ p[2] = "browsecomp_"
    /\ p[Len(p) - 1] = "_allresults"
    /\ p[Len(p)] = ".json"
    /\ \A k \in 2..Len(p) : p[k] \notin DirTokens

\* str.replace("_allresults", "_postprocessed")
replace(p) ==
    [k \in 1..Len(p) |-> IF p[k] = "_allresults" THEN "_postprocessed" ELSE p[k]]

\* os.path.splitext(p)[0]
splitext_root(p) ==
    IF Len(p) >= 2 /\ p[Len(p)] \in ExtTokens /\ p[Len(p) - 1] \notin DirTokens
    THEN SubSeq(p, 1, Len(p) - 1)
    ELSE p

\* os.path.basename(p)
RECURSIVE basename(_)
basename(p) ==
    IF \E k \in 1..Len(p) : p[k] \in DirTokens THEN basename(Tail(p)) ELSE p

\* the path the report is written to
OutHtml(result_file) == splitext_root(replace(result_file)) \o <<".html">>

\* ------------------------------------------------------------- the inputs
P1 == <<"/tmp/", "browsecomp_", "1", "_allresults", ".json">>
P2 == <<"/tmp/", "browsecomp_", "2", "_allresults", ".json">>
P3 == <<"r", ".html">>
InputPaths == {P1, P2, P3}
AllPaths == InputPaths \cup {OutHtml(p) : p \in InputPaths}

\* the snippets and conversations the bundles are made of
HtmlSet ==
    { <<"x", "Score:", " ", "True", "x">>,
      <<"Score:", " ", "0", ".", "0">>,
      <<"Score:", "0", ".", "7", "5">>,
      <<"x", "True">> }
ConvoSet ==
    { <<>>,
      << Msg("user", <<"x">>), Msg("assistant", <<" ", " ">>) >>,
      << Msg("assistant", <<" ", Placeholder, "x">>) >>,
      << Msg("user", <<"x">>), MsgNoContent("assistant") >>,
      << Msg("assistant", <<" ", "x", Placeholder, " ">>) >> }
\* the aggregate score of the original run, an opaque JSON scalar
ScoreSet == {"0.5"}

\* all token sequences of length at most n over S
SeqsUpTo(S, n) == UNION {[1..k -> S] : k \in 0..n}

\* a parsed JSON object; has_htmls / has_convos say whether the key is there
Bundles ==
    { b \in [has_htmls : BOOLEAN, htmls : SeqsUpTo(HtmlSet, MaxLen),
             has_convos : BOOLEAN, convos : SeqsUpTo(ConvoSet, MaxLen),
             score : ScoreSet] :
        /\ ~b.has_htmls => b.htmls = <<>>
        /\ ~b.has_convos => b.convos = <<>> }
EmptyBundle ==
    [has_htmls |-> FALSE, htmls |-> <<>>, has_convos |-> FALSE, convos |-> <<>>,
     score |-> "absent"]

\* a file: absent, a JSON document, or text that is no JSON
Absent == [kind |-> "absent", data |-> EmptyBundle, text |-> <<>>]
JsonFile(b) == [kind |-> "json", data |-> b, text |-> <<>>]
TextFile(t) == [kind |-> "text", data |-> EmptyBundle, text |-> t]

\* ----------------------------------------------------------------- state
VARIABLES
    args,         \* the parsed command line: [file, latest]; file <<>> = not given
    fs,           \* the file system: path -> file
    pc,           \* where the run is
    run,          \* 1 for the first invocation, 2 for the second
    result_file,
    data,         \* the parsed input
    htmls, convos, total, n,
    i,            \* the number of indices the loop has been through
    kept_scores, kept_htmls, skipped, kept, recomputed_acc,
    fragments,    \* what was handed to make_report_from_example_htmls
    stdout,       \* the lines printed, in order
    stderr,       \* the message of the fatal exit
    exit_code,    \* 0 until the process exits, then its status
    opened,       \* the files opened by this run: <<path, mode>>
    first,        \* the first run's stdout, input file and report, once it is over
    html_arg,     \* the snippet of a stand-alone extract_score_from_html call
    score_ret     \* what that call returned

locals == <<result_file, data, htmls, convos, total, n, i, kept_scores,
            kept_htmls, skipped, kept, recomputed_acc, fragments>>
vars == <<args, fs, pc, run, locals, stdout, stderr, exit_code, opened, first,
          html_arg, score_ret>>

InitLocals ==
    /\ result_file = <<>>
    /\ data = EmptyBundle
    /\ htmls = <<>>
    /\ convos = <<>>
    /\ total = 0
    /\ n = 0
    /\ i = 0
    /\ kept_scores = <<>>
    /\ kept_htmls = <<>>
    /\ skipped = 0
    /\ kept = 0
    /\ recomputed_acc = FZero
    /\ fragments = <<>>

NoFirst == [result_file |-> <<>>, stdout |-> <<>>, input |-> Absent, report |-> Absent]

\* the files that exist when the tool is first run
ExistingSets == {{}, {P1, P2, P3}}

\* the command lines: nothing, --latest, --file P1, --file P3 --latest
ArgSet ==
    { [file |-> <<>>, latest |-> FALSE], [file |-> <<>>, latest |-> TRUE],
      [file |-> P1, latest |-> FALSE], [file |-> P3, latest |-> TRUE] }

Init ==
    /\ args \in ArgSet
    /\ \E b \in Bundles, E \in ExistingSets :
         fs = [p \in AllPaths |-> IF p \in E THEN JsonFile(b) ELSE Absent]
    /\ pc = "start"
    /\ run = 1
    /\ InitLocals
    /\ stdout = <<>>
    /\ stderr = <<>>
    /\ exit_code = 0
    /\ opened = <<>>
    /\ first = NoFirst
    /\ html_arg = <<>>
    /\ score_ret = NoScore

\* ------------------------------------------------------------- main: steps
\* raise SystemExit(msg) and an uncaught exception both end the process with
\* status 1 and the message on stderr
Fatal(msg) ==
    /\ pc' = "fatal"
    /\ exit_code' = 1
    /\ stderr' = <<msg>>

\* lines 62-69 with line 63 testing only "not result_file"
ResolveInput_AlwaysLatest(a, f) ==
    IF a.file = <<>>
    THEN LET candidates == {p \in DOMAIN f : f[p].kind # "absent" /\ GlobMatch(p)}
         IN IF candidates = {}
            THEN [ok |-> FALSE, path |-> <<>>,
                  msg |-> "No /tmp/browsecomp_*_allresults.json files found"]
            ELSE [ok |-> TRUE, path |-> LastSorted(candidates), msg |-> ""]
    ELSE [ok |-> TRUE, path |-> a.file, msg |-> ""]

\* lines 62-69: the input path, or the message of the fatal exit
ResolveInput(a, f) ==
    IF a.latest /\ a.file = <<>>
    THEN LET candidates == {p \in DOMAIN f : f[p].kind # "absent" /\ GlobMatch(p)}
         IN IF candidates = {}
            THEN [ok |-> FALSE, path |-> <<>>,
                  msg |-> "No /tmp/browsecomp_*_allresults.json files found"]
            ELSE [ok |-> TRUE, path |-> LastSorted(candidates), msg |-> ""]
    ELSE IF a.file = <<>>
         THEN [ok |-> FALSE, path |-> <<>>, msg |-> "Must provide --file or --latest"]
         ELSE [ok |-> TRUE, path |-> a.file, msg |-> ""]

Resolve ==
    /\ pc = "start"
    /\ LET r == ResolveInput(args, fs) IN
       IF r.ok
       THEN /\ result_file' = r.path
            /\ pc' = "load"
            /\ UNCHANGED <<stderr, exit_code>>
       ELSE /\ Fatal(r.msg)
            /\ UNCHANGED result_file
    /\ UNCHANGED <<args, fs, run, data, htmls, convos, total, n, i, kept_scores,
                   kept_htmls, skipped, kept, recomputed_acc, fragments, stdout,
                   opened, first, html_arg, score_ret>>

\* data.get("htmls", []) and data.get("convos", [])
get_htmls(d) == IF d.has_htmls THEN d.htmls ELSE <<>>
get_convos(d) == IF d.has_convos THEN d.convos ELSE <<>>
\* data.get("score")
get_score(d) == IF d.score = "absent" THEN "null" ELSE d.score

\* line 80
Min(a, b) == IF a <= b THEN a ELSE b

\* line 77 taking the other sequence, and taking the truncated length
TotalOf_Convos(hs, cs) == Len(cs)
TotalOf_Shorter(hs, cs) == Min(Len(hs), Len(cs))
\* line 77
TotalOf(hs, cs) == Len(hs)

\* line 78 testing only for missing conversations
Mismatch_Fewer(hs, cs) == Len(cs) < Len(hs)
\* line 78
Mismatch(hs, cs) == Len(cs) # Len(hs)

Warning(hs, cs) == [kind |-> "warning", htmls_len |-> Len(hs), convos_len |-> Len(cs)]

\* lines 71-84: open and parse the input, take the two sequences, warn about
\* a length mismatch, set up the loop
Load ==
    /\ pc = "load"
    /\ IF fs[result_file].kind = "absent"
       THEN /\ Fatal("FileNotFoundError")
            /\ UNCHANGED <<locals, stdout, opened>>
       ELSE IF fs[result_file].kind # "json"
       THEN /\ Fatal("JSONDecodeError")
            /\ opened' = Append(opened, <<result_file, "r">>)
            /\ UNCHANGED <<locals, stdout>>
       ELSE LET d == fs[result_file].data
                hs == get_htmls(d)
                cs == get_convos(d)
            IN /\ opened' = Append(opened, <<result_file, "r">>)
               /\ data' = d
               /\ htmls' = hs
               /\ convos' = cs
               /\ total' = TotalOf(hs, cs)
               /\ stdout' = IF Mismatch(hs, cs)
                            THEN Append(stdout, Warning(hs, cs))
                            ELSE stdout
               /\ n' = Min(Len(hs), Len(cs))
               /\ kept_scores' = <<>>
               /\ kept_htmls' = <<>>
               /\ skipped' = 0
               /\ i' = 0
               /\ pc' = "loop"
               /\ UNCHANGED <<result_file, kept, recomputed_acc, fragments,
                              stderr, exit_code>>
    /\ UNCHANGED <<args, fs, run, first, html_arg, score_ret>>

\* lines 85-95 with line 92 left out
LoopStep_NoSkipCount ==
    /\ pc = "loop"
    /\ i < n
    /\ IF is_empty_assistant(convos[i + 1])
       THEN /\ skipped' = skipped + 1
            /\ UNCHANGED <<kept_scores, kept_htmls>>
       ELSE LET score == extract_score_from_html(htmls[i + 1]) IN
            IF ~score.found
            THEN UNCHANGED <<skipped, kept_scores, kept_htmls>>
            ELSE /\ kept_scores' = Append(kept_scores, score.val)
                 /\ kept_htmls' = Append(kept_htmls, htmls[i + 1])
                 /\ UNCHANGED skipped
    /\ i' = i + 1
    /\ UNCHANGED <<args, fs, pc, run, result_file, data, htmls, convos, total, n,
                   kept, recomputed_acc, fragments, stdout, stderr, exit_code,
                   opened, first, html_arg, score_ret>>

\* lines 85-95: one iteration of the loop, on index i (0-based)
LoopStep ==
    /\ pc = "loop"
    /\ i < n
    /\ IF is_empty_assistant(convos[i + 1])
       THEN /\ skipped' = skipped + 1
            /\ UNCHANGED <<kept_scores, kept_htmls>>
       ELSE LET score == extract_score_from_html(htmls[i + 1]) IN
            IF ~score.found
            THEN /\ skipped' = skipped + 1
                 /\ UNCHANGED <<kept_scores, kept_htmls>>
            ELSE /\ kept_scores' = Append(kept_scores, score.val)
                 /\ kept_htmls' = Append(kept_htmls, htmls[i + 1])
                 /\ UNCHANGED skipped
    /\ i' = i + 1
    /\ UNCHANGED <<args, fs, pc, run, result_file, data, htmls, convos, total, n,
                   kept, recomputed_acc, fragments, stdout, stderr, exit_code,
                   opened, first, html_arg, score_ret>>

\* statistics.mean: the exact sum over the length; it raises StatisticsError
\* (ok is FALSE) on an empty list
RECURSIVE FSum(_)
FSum(xs) == IF xs = <<>> THEN FZero ELSE FAdd(xs[1], FSum(Tail(xs)))
mean(xs) ==
    IF xs = <<>> THEN [ok |-> FALSE, val |-> FZero]
    ELSE LET s == FSum(xs) IN [ok |-> TRUE, val |-> Frac(s.num, s.den * Len(xs))]

\* line 98 without its guard
RecomputedAcc_Unguarded(scores) == mean(scores)

\* line 98
RecomputedAcc(scores) ==
    IF scores # <<>> THEN mean(scores) ELSE [ok |-> TRUE, val |-> FZero]

Summary(file, d, tot, k, sk, acc) ==
    [kind |-> "summary",
     file |-> file,
     original_aggregate_score |-> get_score(d),
     total_examples |-> tot,
     kept_examples |-> k,
     skipped_examples |-> sk,
     recomputed_accuracy_excluding_empty |-> acc]

\* lines 97-109: the loop is over; count, average, print the summary
Summarize ==
    /\ pc = "loop"
    /\ i = n
    /\ kept' = Len(kept_scores)
    /\ LET acc == RecomputedAcc(kept_scores) IN
       IF acc.ok
       THEN /\ recomputed_acc' = acc.val
            /\ stdout' = Append(stdout, Summary(result_file, data, total, kept',
                                                skipped, acc.val))
            /\ pc' = "report"
            /\ UNCHANGED <<stderr, exit_code>>
       ELSE /\ Fatal("StatisticsError")
            /\ UNCHANGED <<recomputed_acc, stdout>>
    /\ UNCHANGED <<args, fs, run, result_file, data, htmls, convos, total, n, i,
                   kept_scores, kept_htmls, skipped, fragments, opened, first,
                   html_arg, score_ret>>

\* f"{acc:.3f}": the nearest thousandth (a tie goes to the even one), as the
\* tokens of its decimal representation
Fmt3(acc) ==
    LET q == (acc.num * 1000) \div acc.den
        r == (acc.num * 1000) % acc.den
        m == IF 2 * r > acc.den \/ (2 * r = acc.den /\ q % 2 = 1) THEN q + 1 ELSE q
    IN <<ToString(m \div 1000), ".", ToString((m \div 100) % 10),
         ToString((m \div 10) % 10), ToString(m % 10)>>

\* lines 114-118
HeaderBlock(file, tot, k, sk, acc) ==
    <<"<h2>Postprocessed Report</h2>", "<p>Source JSON: ">> \o basename(file)
    \o <<"</p>", "<p>Total: ", ToString(tot), " | Kept: ", ToString(k),
         " | Skipped: ", ToString(sk), " | Accuracy (kept): ">>
    \o Fmt3(acc) \o <<"</p>">>

\* line 119 with the header block after the examples
ReportFragments_HeaderLast(header_block, khtmls) == khtmls \o <<header_block>>

\* line 119: the list handed to the renderer
ReportFragments(header_block, khtmls) == <<header_block>> \o khtmls

\* common.make_report_from_example_htmls: one document out of the fragments,
\* in their order
make_report_from_example_htmls(frags) == <<"<html>">> \o frags \o <<"</html>">>

\* open(path, "a") ... write(content)
WriteFile_Append(f, path, content) ==
    [f EXCEPT ![path] = TextFile(f[path].text \o content)]

\* open(path, "w") ... write(content)
WriteFile(f, path, content) == [f EXCEPT ![path] = TextFile(content)]

Written(path) == [kind |-> "written", postprocessed_html |-> path]

\* lines 111-122: build and write the report, announce its path
WriteReport ==
    /\ pc = "report"
    /\ LET out_html == OutHtml(result_file)
           header_block == HeaderBlock(result_file, total, kept, skipped,
                                       recomputed_acc)
           frags == ReportFragments(header_block, kept_htmls)
       IN /\ fragments' = frags
          /\ fs' = WriteFile(fs, out_html, make_report_from_example_htmls(frags))
          /\ opened' = Append(opened, <<out_html, "w">>)
          /\ stdout' = Append(stdout, Written(out_html))
    /\ pc' = "done"
    /\ UNCHANGED <<args, run, result_file, data, htmls, convos, total, n, i,
                   kept_scores, kept_htmls, skipped, kept, recomputed_acc, stderr,
                   exit_code, first, html_arg, score_ret>>

\* the tool is started again with the same command line, after a first run
\* that went through
Rerun ==
    /\ pc = "done"
    /\ run = 1
    /\ first' = [result_file |-> result_file, stdout |-> stdout,
                  input |-> fs[result_file], report |-> fs[OutHtml(result_file)]]
    /\ run' = 2
    /\ pc' = "start"
    /\ result_file' = <<>>
    /\ data' = EmptyBundle
    /\ htmls' = <<>>
    /\ convos' = <<>>
    /\ total' = 0
    /\ n' = 0
    /\ i' = 0
    /\ kept_scores' = <<>>
    /\ kept_htmls' = <<>>
    /\ skipped' = 0
    /\ kept' = 0
    /\ recomputed_acc' = FZero
    /\ fragments' = <<>>
    /\ stdout' = <<>>
    /\ opened' = <<>>
    /\ UNCHANGED <<args, fs, stderr, exit_code, html_arg, score_ret>>

Next == Resolve \/ Load \/ LoopStep \/ Summarize \/ WriteReport \/ Rerun

Spec == Init /\ [][Next]_vars

\* ------------------------------------- extract_score_from_html on its own
InitExtract ==
    /\ pc = "call"
    /\ html_arg \in SeqsUpTo(HtmlTokens, MaxHtmlLen)
    /\ score_ret = NoScore
    /\ args = [file |-> <<>>, latest |-> FALSE]
    /\ fs = [p \in AllPaths |-> Absent]
    /\ run = 1
    /\ InitLocals
    /\ stdout = <<>>
    /\ stderr = <<>>
    /\ exit_code = 0
    /\ opened = <<>>
    /\ first = NoFirst

ExtractStep ==
    /\ pc = "call"
    /\ score_ret' = extract_score_from_html(html_arg)
    /\ pc' = "ret"
    /\ UNCHANGED <<args, fs, run, locals, stdout, stderr, exit_code, opened,
                   first, html_arg>>

NextExtract == ExtractStep

SpecExtract == InitExtract /\ [][NextExtract]_vars

\* ------------------------------------------------------------ the claims
\* an empty or placeholder conversation, as the specification words it
ClaimEmpty(convo) ==
    \/ Len(convo) = 0
    \/ LET last == convo[Len(convo)]
           c == last.content
       IN \/ ~last.has_content
          \/ \A k \in 1..Len(c) : c[k] = " "
          \/ \E k \in 1..Len(c) :
                c[k] = Placeholder /\ \A j \in 1..(k - 1) : c[j] = " "

\* the input has been parsed
Loaded == pc \in {"loop", "report", "done"}
\* the summary has been printed
Emitted == pc \in {"report", "done"}

\* the ways a run ends fatally: no input path, no input file, no JSON in it
EarlyFailures ==
    { <<"No /tmp/browsecomp_*_allresults.json files found">>,
      <<"Must provide --file or --latest">>,
      <<"FileNotFoundError">>, <<"JSONDecodeError">> }

\* the lengths of the two sequences of the parsed input
LenHtmls == Len(data.htmls)
LenConvos == Len(data.convos)
Shorter == IF LenHtmls <= LenConvos THEN LenHtmls ELSE LenConvos

\* the summary lines and the warning lines printed so far
SummaryAt == {k \in 1..Len(stdout) : stdout[k].kind = "summary"}
WarningAt == {k \in 1..Len(stdout) : stdout[k].kind = "warning"}
WrittenAt == {k \in 1..Len(stdout) : stdout[k].kind = "written"}

\* the 1-based indices of the examples that are to be kept
ExpKept ==
    {k \in 1..Shorter :
        ~ClaimEmpty(data.convos[k]) /\ re_search(data.htmls[k], 1) # <<>>}
\* the j-th of them, in increasing order
NthKept(j) == CHOOSE k \in ExpKept : Cardinality({m \in ExpKept : m < k}) = j - 1

\* C1: the loop goes through exactly the indices below min(len(htmls),
\* len(convos)), each of them adds one to exactly one of the two counters, and
\* the summary has kept_examples + skipped_examples = min(len(htmls), len(convos)).
C1_KeptPlusSkipped ==
    /\ Loaded => /\ n = Shorter
                 /\ i <= n
                 /\ Len(kept_scores) + skipped = i
    /\ Emitted => i = n
    /\ \A k \in SummaryAt :
          stdout[k].kept_examples + stdout[k].skipped_examples = Shorter

\* a run on sequences of unequal lengths that kept or skipped something
C1_Witness ==
    pc = "done" /\ LenHtmls # LenConvos /\ kept + skipped > 0

\* C2: a step of the loop on an example whose conversation is empty or a
\* placeholder adds one to skipped and leaves the kept scores and the kept
\* snippets as they are, whatever the snippet holds.
C2_EmptyAlwaysSkipped ==
    [][ (pc = "loop" /\ i < n /\ ClaimEmpty(convos[i + 1]) /\ i' = i + 1)
        => /\ skipped' = skipped + 1
           /\ kept_scores' = kept_scores
           /\ kept_htmls' = kept_htmls ]_vars

\* an example with a whitespace-only answer and a score marker was skipped
C2_Witness ==
    /\ pc = "loop"
    /\ i >= 1
    /\ ClaimEmpty(convos[i])
    /\ convos[i] # <<>>
    /\ convos[i][Len(convos[i])].content \in {<<" ">>, <<" ", " ">>}
    /\ extract_score_from_html(htmls[i]).found
    /\ skipped >= 1
    /\ kept_scores = <<>>

\* the sum of the scores of the examples in S, in units of 1/d
RECURSIVE ScoreUnits(_, _)
ScoreUnits(S, d) ==
    IF S = {} THEN 0
    ELSE LET k == CHOOSE m \in S : TRUE
             v == extract_score_from_html(data.htmls[k]).val
         IN (v.num * d) \div v.den + ScoreUnits(S \ {k}, d)
\* a common denominator of the scores of the examples in S
RECURSIVE CommonDen(_)
CommonDen(S) ==
    IF S = {} THEN 1
    ELSE LET k == CHOOSE m \in S : TRUE
         IN extract_score_from_html(data.htmls[k]).val.den * CommonDen(S \ {k})

\* C3: the accuracy in the summary is the sum of the scores of exactly the kept
\* examples over their number, it is 0.0 when nothing is kept, and the run does
\* not fail on an input with nothing kept.
C3_MeanOfKept ==
    /\ Emitted =>
          /\ kept = Cardinality(ExpKept)
          /\ IF kept = 0
             THEN recomputed_acc = [num |-> 0, den |-> 1]
             ELSE LET d == CommonDen(ExpKept) IN
                  recomputed_acc.num * d * kept
                      = recomputed_acc.den * ScoreUnits(ExpKept, d)
          /\ \A k \in SummaryAt :
                /\ stdout[k].kept_examples = kept
                /\ stdout[k].recomputed_accuracy_excluding_empty = recomputed_acc
    /\ pc = "fatal" => stderr \in EarlyFailures

C3_Witness ==
    pc = "done" /\ kept = 2 /\ skipped = 0 /\ recomputed_acc.den > 1

\* C5: the fragments handed to the renderer are the header block and then the
\* snippets of exactly the kept examples, each once, in the order of their
\* indices.
C5_FragmentsInOrder ==
    pc = "done" =>
        /\ Len(fragments) = 1 + Cardinality(ExpKept)
        /\ fragments[1] = HeaderBlock(result_file, total, kept, skipped,
                                      recomputed_acc)
        /\ \A j \in 1..Cardinality(ExpKept) :
              fragments[j + 1] = data.htmls[NthKept(j)]

C5_Witness ==
    /\ pc = "done"
    /\ Len(fragments) = 3
    /\ fragments[2] # fragments[3]

\* no input path can be resolved from the command line
NoPath ==
    /\ args.file = <<>>
    /\ \/ ~args.latest
       \/ ~\E p \in AllPaths : fs[p].kind # "absent" /\ GlobMatch(p)

\* C6: when no input path can be resolved the run ends fatally, with a nonzero
\* status and a message, having printed nothing, opened no file and written no
\* report.
C6_NoPathIsFatal ==
    NoPath =>
        /\ pc \in {"start", "fatal"}
        /\ pc = "fatal" => exit_code # 0 /\ stderr # <<>>
        /\ pc = "start" => ENABLED Resolve
        /\ stdout = <<>>
        /\ opened = <<>>
        /\ \A p \in AllPaths : fs[p].kind # "text"

C6_Witness ==
    /\ pc = "fatal"
    /\ args.latest
    /\ args.file = <<>>
    /\ stderr = <<"No /tmp/browsecomp_*_allresults.json files found">>

\* a key of the parsed input is missing
KeyMissing == ~data.has_htmls \/ ~data.has_convos

\* C7 as stated: with the htmls key or the convos key missing the summary has
\* zero total_examples, zero kept_examples and zero skipped_examples.
C7_MissingKeyAllZero ==
    (Emitted /\ KeyMissing) =>
        \A k \in SummaryAt :
            /\ stdout[k].total_examples = 0
            /\ stdout[k].kept_examples = 0
            /\ stdout[k].skipped_examples = 0

\* C7, amended: with the htmls key or the convos key missing the run is not
\* fatal and the summary has zero kept_examples and zero skipped_examples;
\* total_examples is zero when htmls is missing and len(htmls) when only convos
\* is missing.
C7_MissingKeyTolerated ==
    /\ (Loaded /\ KeyMissing) =>
          /\ n = 0
          /\ ~data.has_htmls => htmls = <<>>
          /\ ~data.has_convos => convos = <<>>
    /\ (Emitted /\ KeyMissing) =>
          /\ SummaryAt # {}
          /\ \A k \in SummaryAt :
                /\ stdout[k].kept_examples = 0
                /\ stdout[k].skipped_examples = 0
                /\ stdout[k].total_examples
                      = IF data.has_htmls THEN LenHtmls ELSE 0
    /\ (pc = "fatal" /\ result_file # <<>>) => fs[result_file].kind # "json"

C7_Witness ==
    /\ pc = "done"
    /\ data.has_htmls
    /\ ~data.has_convos
    /\ LenHtmls = MaxLen
    /\ total = MaxLen

FirstOutElsewhere == OutHtml(first.result_file) # first.result_file

C9_MismatchWarns ==
    /\ Loaded =>
          /\ (WarningAt # {}) = (LenHtmls # LenConvos)
          /\ WarningAt \subseteq {1}
          /\ i <= Shorter
    /\ pc = "done" =>
          /\ i = Shorter
          /\ Cardinality(SummaryAt) = 1
          /\ WrittenAt = {Len(stdout)}
          /\ SummaryAt = {Len(stdout) - 1}
          /\ stdout[Len(stdout)].postprocessed_html = OutHtml(result_file)
          /\ fs[OutHtml(result_file)].kind = "text"
    /\ pc = "fatal" => stdout = <<>> /\ stderr \in EarlyFailures

C9_Witness ==
    /\ pc = "done"
    /\ LenConvos > LenHtmls
    /\ LenHtmls > 0
    /\ Len(stdout) = 3
    /\ stdout[1].kind = "warning"

\* the token after "<p>Total: " in a header block
ShownTotal(header) ==
    header[(CHOOSE k \in 1..Len(header) : header[k] = "<p>Total: ") + 1]

\* C10: total_examples is len(htmls) whatever convos is, so it is at least
\* kept_examples + skipped_examples, and equal to it exactly when
\* len(convos) >= len(htmls); the header block shows the same total.
C10_TotalIsLenHtmls ==
    /\ \A k \in SummaryAt :
          /\ stdout[k].total_examples = LenHtmls
          /\ stdout[k].total_examples
                >= stdout[k].kept_examples + stdout[k].skipped_examples
          /\ (stdout[k].total_examples
                = stdout[k].kept_examples + stdout[k].skipped_examples)
             = (LenConvos >= LenHtmls)
    /\ pc = "done" => ShownTotal(fragments[1]) = ToString(LenHtmls)

C10_Witness ==
    /\ pc = "done"
    /\ LenConvos < LenHtmls
    /\ LenConvos > 0
    /\ ShownTotal(fragments[1]) = ToString(MaxLen)

\* C4: whatever the snippet, extract_score_from_html returns None or a number
\* in the closed range [0.0, 1.0].
C4_ScoreInUnitRange ==
    (pc = "ret" /\ score_ret.found) => score_ret.val.num <= score_ret.val.den

====
